---- MODULE Spec2Model ----
(***************************************************************************)
(* Model of benchbot_eval/cdq3d.py: the per-map evaluation _calc_qual_map   *)
(* and the running accumulator CDQ3D; and of Evaluator.evaluate() of         *)
(* benchbot_eval/evaluator.py.                                              *)
(*                                                                          *)
(* Numbers.  Qualities, probabilities and costs are fixed-point values in   *)
(* units of 1/Scale: the integer q stands for q/Scale, so 1.0 is Scale.     *)
(* Counts (TP, FP, FN) are plain integers.  Values returned by the getters  *)
(* are exact fractions [num, den] in lowest terms.  Floating-point          *)
(* rounding of sums is not modelled; the geometric mean and the IoU are     *)
(* rounded to the nearest grid value.                                       *)
(*                                                                          *)
(* Records.  A Python dict is a record with a field keys, the set of keys   *)
(* the dict holds; d['k'] raises KeyError exactly when "k" \notin d.keys.   *)
(*                                                                          *)
(* Indices.  Sequences are 1-based, so row r is a real ground truth when    *)
(* r <= g (the code's row_id < len(gt_instances)), and class id c reads     *)
(* prob_dist[c + 1].                                                        *)
(***************************************************************************)
EXTENDS Integers, Sequences, FiniteSets, TLC

\* ---- bounds of the model
Scale == 10
MaxObjs == 2
MaxMaps == 2
MaxTotal == 3
MaxMalformed == 1
MaxEnvs == 2

VARIABLES
    tot,        \* the eight running totals _tot_* of the CDQ3D object
    scd_mode,   \* self.scd_mode
    tiebreak,   \* the tie-breaking policy of the assignment solver
    op,         \* the last operation called on the object
    raised,     \* whether that call raised an exception
    ret,        \* what that call returned
    arg,        \* the map list given to the last score() call (names of Maps)
    fresh,      \* no map has been added since construction or the last reset()
    hist,       \* history: whether every call since construction or the last reset()
                \* returned, and the ground truths and detections of the maps added
    ev,         \* SpecEval: the run of Evaluator.evaluate(): its inputs and its position
    gt_in,      \* SpecMap: the ground-truth list of the map under evaluation (names of Gts)
    det_in,     \* SpecMap: the detection list of the map under evaluation (names of Dets)
    pc          \* SpecMap: "start" | "done";  Spec: "session"

vars == <<tot, scd_mode, tiebreak, op, raised, ret, arg, fresh, hist, ev, gt_in, det_in, pc>>

\* ---- arithmetic helpers

RECURSIVE GCD(_, _)
GCD(a, b) == IF b = 0 THEN a ELSE GCD(b, a % b)

\* Python's a / b on non-negative operands: the exact fraction in lowest terms,
\* ZeroDivisionError when b is 0.
TrueDiv(a, b) ==
    IF b = 0 THEN [kind |-> "ZeroDivisionError", num |-> 0, den |-> 0]
    ELSE LET g == GCD(a, b) IN [kind |-> "float", num |-> a \div g, den |-> b \div g]

\* A float literal n/d.
Float(n, d) == TrueDiv(n, d)

\* np.max over a non-empty set of numbers
Max(S) == CHOOSE x \in S : \A y \in S : y <= x

\* np.sum of f over the finite index set S
RECURSIVE Sum(_, _)
Sum(f, S) ==
    IF S = {} THEN 0
    ELSE LET x == CHOOSE y \in S : TRUE IN f[x] + Sum(f, S \ {x})

RECURSIVE Prod(_)
Prod(s) == IF s = <<>> THEN 1 ELSE Head(s) * Prod(Tail(s))

RECURSIVE Pow(_, _)
Pow(b, k) == IF k = 0 THEN 1 ELSE b * Pow(b, k - 1)

\* scipy.stats.gmean of a sequence of k grid values: the k-th root of their
\* product, rounded to the nearest grid value.  Zero exactly when a component is 0.
Root(s) ==
    LET k == Len(s)
        P == Prod(s)
    IN CHOOSE r \in 0..Scale :
          /\ (r = 0 \/ Pow(2 * r - 1, k) <= Pow(2, k) * P)
          /\ Pow(2 * r + 1, k) > Pow(2, k) * P

\* the roots of all pairs and triples of grid values, computed once
Root2 == [a \in 0..Scale |-> [b \in 0..Scale |-> Root(<<a, b>>)] @@ <<>>] @@ <<>>
Root3 ==
    [a \in 0..Scale |-> [b \in 0..Scale |->
        [c \in 0..Scale |-> Root(<<a, b, c>>)] @@ <<>>] @@ <<>>] @@ <<>>

gmean(s) == IF Len(s) = 2 THEN Root2[s[1]][s[2]] ELSE Root3[s[1]][s[2]][s[3]]

\* a numpy array: the function f with every entry computed and stored
Array(f) == f @@ <<>>

\* prob_dist[:-1]: the entries of a distribution without its last one
AllButLast(s) == { s[i] : i \in 1..(Len(s) - 1) }

\* ---- records

STATE_IDS == [added |-> 0, removed |-> 1, constant |-> 2]

\* d['k'] is defined (raises no KeyError)
HasKey(d, k) == k \in d.keys

GtKeys == {"class_id", "centroid", "extent", "state"}
DetKeys == {"prob_dist", "centroid", "extent", "state_probs"}

GtDict(class_id, centroid, extent, state) ==
    [keys |-> GtKeys, class_id |-> class_id, centroid |-> centroid,
     extent |-> extent, state |-> state]

DetDict(prob_dist, centroid, extent, state_probs) ==
    [keys |-> DetKeys, prob_dist |-> prob_dist, centroid |-> centroid,
     extent |-> extent, state_probs |-> state_probs]

\* the same dict without key k
Without(d, k) == [d EXCEPT !.keys = @ \ {k}]

\* ---- iou_tools.IoU.dict_iou(...)[1]: intersection over union of two boxes.
\* Boxes are one-dimensional here: centroid c and extent e span [2c - e, 2c + e]
\* in half units.  0 for disjoint boxes, Scale (1.0) for identical ones.
dict_iou(gt_box, det_box) ==
    LET lo1 == 2 * gt_box.centroid - gt_box.extent
        hi1 == 2 * gt_box.centroid + gt_box.extent
        lo2 == 2 * det_box.centroid - det_box.extent
        hi2 == 2 * det_box.centroid + det_box.extent
        lo == IF lo1 > lo2 THEN lo1 ELSE lo2
        hi == IF hi1 < hi2 THEN hi1 ELSE hi2
        inter == IF hi > lo THEN hi - lo ELSE 0
        union == (hi1 - lo1) + (hi2 - lo2) - inter
    IN (2 * Scale * inter + union) \div (2 * union)

\* ---- _vectorize_map_gts / _vectorize_map_dets

\* some gt_instance[...] access of _vectorize_map_gts raises KeyError
vectorize_map_gts_raises(gt_instances, scd) ==
    \E i \in 1..Len(gt_instances) :
        \/ ~HasKey(gt_instances[i], "class_id")
        \/ ~HasKey(gt_instances[i], "centroid")
        \/ ~HasKey(gt_instances[i], "extent")
        \/ (scd /\ ~HasKey(gt_instances[i], "state"))

vectorize_map_gts(gt_instances, scd) ==
    [gt_boxes |-> [i \in 1..Len(gt_instances) |->
                      [centroid |-> gt_instances[i].centroid,
                       extent |-> gt_instances[i].extent]],
     gt_labels |-> [i \in 1..Len(gt_instances) |-> gt_instances[i].class_id],
     gt_state_ids |-> [i \in 1..Len(gt_instances) |->
                          IF scd THEN STATE_IDS[gt_instances[i].state] ELSE -1]]

\* some det_instance[...] access of _vectorize_map_dets raises KeyError
vectorize_map_dets_raises(det_instances, scd) ==
    \E j \in 1..Len(det_instances) :
        \/ ~HasKey(det_instances[j], "prob_dist")
        \/ ~HasKey(det_instances[j], "centroid")
        \/ ~HasKey(det_instances[j], "extent")
        \/ (scd /\ ~HasKey(det_instances[j], "state_probs"))

vectorize_map_dets(det_instances, scd) ==
    [det_boxes |-> [j \in 1..Len(det_instances) |->
                       [centroid |-> det_instances[j].centroid,
                        extent |-> det_instances[j].extent]],
     det_label_prob_mat |-> [j \in 1..Len(det_instances) |-> det_instances[j].prob_dist],
     det_state_prob_mat |-> [j \in 1..Len(det_instances) |->
                                IF scd THEN det_instances[j].state_probs
                                ELSE <<-1, -1, -1>>]]

\* ---- quality matrices: functions on (1..g) \X (1..d)

calc_spatial_qual(gt_boxes, det_boxes) ==
    Array([p \in (1..Len(gt_boxes)) \X (1..Len(det_boxes)) |->
              dict_iou(gt_boxes[p[1]], det_boxes[p[2]])])

calc_label_qual(gt_label_vec, det_prob_mat) ==
    Array([p \in (1..Len(gt_label_vec)) \X (1..Len(det_prob_mat)) |->
              det_prob_mat[p[2]][gt_label_vec[p[1]] + 1]])

\* None (is_none) when the state ids are the -1 of non-scene-change mode
calc_state_change_qual(gt_state_vec, det_state_prob_mat) ==
    IF Max({gt_state_vec[i] : i \in 1..Len(gt_state_vec)}) = -1
    THEN [is_none |-> TRUE, mat |-> <<>>]
    ELSE [is_none |-> FALSE,
          mat |-> Array([p \in (1..Len(gt_state_vec)) \X (1..Len(det_state_prob_mat)) |->
                            det_state_prob_mat[p[2]][gt_state_vec[p[1]] + 1]])]

\* mutant: the state quality is left out of the geometric mean
calc_overall_qual_without_state(label_qual, spatial_qual, state_qual_mat) ==
    Array([p \in DOMAIN label_qual |-> gmean(<<label_qual[p], spatial_qual[p]>>)])

calc_overall_qual(label_qual, spatial_qual, state_qual_mat) ==
    Array([p \in DOMAIN label_qual |->
              IF state_qual_mat.is_none
              THEN gmean(<<label_qual[p], spatial_qual[p]>>)
              ELSE gmean(<<label_qual[p], spatial_qual[p], state_qual_mat.mat[p]>>)])

\* ---- _gen_cost_tables: n_pairs x n_pairs tables of cost Scale - quality,
\* cost Scale (1.0) outside the real g x d block
gen_cost_tables(gt_instances, det_instances, scd) ==
    LET g == Len(gt_instances)
        d == Len(det_instances)
        n_pairs == IF g > d THEN g ELSE d
        gts == vectorize_map_gts(gt_instances, scd)
        dets == vectorize_map_dets(det_instances, scd)
        label_qual_mat == calc_label_qual(gts.gt_labels, dets.det_label_prob_mat)
        spatial_qual == calc_spatial_qual(gts.gt_boxes, dets.det_boxes)
        state_change_qual == calc_state_change_qual(gts.gt_state_ids, dets.det_state_prob_mat)
        overall_qual == calc_overall_qual(label_qual_mat, spatial_qual, state_change_qual)
        Table(qual, real) ==
            Array([p \in (1..n_pairs) \X (1..n_pairs) |->
                      IF real /\ p[1] <= g /\ p[2] <= d THEN Scale - qual[p] ELSE Scale])
    IN [n_pairs |-> n_pairs,
        overall |-> Table(overall_qual, TRUE),
        spatial |-> Table(spatial_qual, TRUE),
        label |-> Table(label_qual_mat, TRUE),
        state |-> Table(state_change_qual.mat, scd)]

\* ---- scipy.optimize.linear_sum_assignment: an assignment of the n rows to the
\* n columns (row r to column col_idxs[r]) of minimum total cost.  The solver is
\* deterministic; which of several minimum-cost assignments it returns is its
\* own policy, modelled as the lexicographically first or last one.

Perms(n) == { p \in [1..n -> 1..n] : \A i, j \in 1..n : i # j => p[i] # p[j] }

\* the assignments of every table size of the model, computed once
PermsOf == [n \in 0..(MaxObjs + 1) |-> Perms(n)]

TotalCost(cost, n, p) == Sum([r \in 1..n |-> cost[<<r, p[r]>>]], 1..n)

LexKey(n, p) == Sum([r \in 1..n |-> p[r] * Pow(n + 1, n - r)], 1..n)

Min(S) == CHOOSE x \in S : \A y \in S : x <= y

OptimalAssignments(cost, n) ==
    LET total == Array([p \in PermsOf[n] |-> TotalCost(cost, n, p)])
        best == Min({ total[p] : p \in PermsOf[n] })
    IN { p \in PermsOf[n] : total[p] = best }

\* mutant: every row takes its cheapest column among those still free
RECURSIVE greedy_rows(_, _, _, _)
greedy_rows(cost, n, r, p) ==
    IF r > n THEN p
    ELSE LET free == (1..n) \ { p[i] : i \in 1..Len(p) }
             c == CHOOSE x \in free : \A y \in free :
                     \/ cost[<<r, x>>] < cost[<<r, y>>]
                     \/ (cost[<<r, x>>] = cost[<<r, y>>] /\ x <= y)
         IN greedy_rows(cost, n, r + 1, Append(p, c))

greedy_assignment(cost, n, policy) == greedy_rows(cost, n, 1, <<>>)

\* mutant: the rows are matched to the columns in order
in_order_assignment(cost, n, policy) == [r \in 1..n |-> r]

linear_sum_assignment(cost, n, policy) ==
    LET opt == OptimalAssignments(cost, n)
        key == Array([p \in opt |-> LexKey(n, p)])
        keys == { key[p] : p \in opt }
        chosen == IF policy = "first" THEN Min(keys) ELSE Max(keys)
    IN CHOOSE p \in opt : key[p] = chosen

\* ---- _calc_qual_map

\* mutant: the background class is not left out of the label confidence
fp_cost_of_with_background(det_instance, scd) ==
    LET prob_dist == det_instance.prob_dist
        label == Max({ prob_dist[c] : c \in 1..Len(prob_dist) })
    IN IF scd
       THEN gmean(<<label, Max(AllButLast(det_instance.state_probs))>>)
       ELSE label

\* the confidence cost of one false-positive detection (non-empty map)
fp_cost_of(det_instance, scd) ==
    IF scd
    THEN gmean(<<Max(AllButLast(det_instance.prob_dist)),
                 Max(AllButLast(det_instance.state_probs))>>)
    ELSE Max(AllButLast(det_instance.prob_dist))

\* mutant: >= for > in the test of a true positive
is_true_positive_or_zero(quality) == quality >= 0

\* the match (row_id, col_id) is counted as a true positive
is_true_positive(quality) == quality > 0

\* mutant: the component qualities are summed as they are
quality_table_as_is(table, overall_quality_table) ==
    Array([p \in DOMAIN table |-> Scale - table[p]])

\* 1 - cost_tables[...], forced to zero where the overall quality is zero
zeroed_quality_table(table, overall_quality_table) ==
    Array([p \in DOMAIN table |->
              IF overall_quality_table[p] = 0 THEN 0 ELSE Scale - table[p]])

\* a match that is no true positive counts a false negative
counts_false_negative(row_id, g) == row_id <= g

\* mutant: the 0-based bound kept on 1-based columns
counts_false_positive_off_by_one(col_id, d) == col_id < d

\* a match that is no true positive counts a false positive
counts_false_positive(col_id, d) == col_id <= d

\* mutant: the state confidence enters the cost in scene-change mode
empty_map_fp_cost_with_state(det_instances) ==
    Sum([j \in 1..Len(det_instances) |-> fp_cost_of(det_instances[j], scd_mode)],
        1..Len(det_instances))

\* the false-positive cost of a map without ground truths: label confidence only
empty_map_fp_cost(det_instances) ==
    Sum([j \in 1..Len(det_instances) |-> Max(AllButLast(det_instances[j].prob_dist))],
        1..Len(det_instances))

\* _calc_qual_map raises KeyError instead of returning
calc_qual_map_raises(gt_instances, det_instances, scd) ==
    IF Len(gt_instances) = 0 \/ Len(det_instances) = 0
    THEN /\ Len(det_instances) > 0
         /\ \E j \in 1..Len(det_instances) : ~HasKey(det_instances[j], "prob_dist")
    ELSE \/ vectorize_map_gts_raises(gt_instances, scd)
         \/ vectorize_map_dets_raises(det_instances, scd)

\* the result dict of _calc_qual_map when it does not raise
calc_qual_map(gt_instances, det_instances, scd, policy) ==
    LET g == Len(gt_instances)
        d == Len(det_instances)
    IN IF g = 0 \/ d = 0
       THEN [overall |-> 0, spatial |-> 0, label |-> 0,
             fp_cost |-> IF d > 0 THEN empty_map_fp_cost(det_instances) ELSE 0,
             TP |-> 0, FP |-> d, FN |-> g, state_change |-> 0]
       ELSE
         LET cost_tables == gen_cost_tables(gt_instances, det_instances, scd)
             n == cost_tables.n_pairs
             col_idxs == linear_sum_assignment(cost_tables.overall, n, policy)
             overall_quality_table ==
                 Array([p \in DOMAIN cost_tables.overall |-> Scale - cost_tables.overall[p]])
             spatial_quality_table ==
                 zeroed_quality_table(cost_tables.spatial, overall_quality_table)
             label_quality_table ==
                 zeroed_quality_table(cost_tables.label, overall_quality_table)
             state_change_quality_table ==
                 zeroed_quality_table(cost_tables.state, overall_quality_table)
             tp_rows == { r \in 1..n : is_true_positive(overall_quality_table[<<r, col_idxs[r]>>]) }
             fn_rows == { r \in (1..n) \ tp_rows : counts_false_negative(r, g) }
             fp_rows == { r \in (1..n) \ tp_rows : counts_false_positive(col_idxs[r], d) }
             false_positive_idxs == { col_idxs[r] : r \in fp_rows }
             Matched(table) == Sum([r \in 1..n |-> table[<<r, col_idxs[r]>>]], 1..n)
         IN [overall |-> Matched(overall_quality_table),
             spatial |-> Matched(spatial_quality_table),
             label |-> Matched(label_quality_table),
             fp_cost |-> Sum([i \in false_positive_idxs |-> fp_cost_of(det_instances[i], scd)],
                             false_positive_idxs),
             TP |-> Cardinality(tp_rows),
             FP |-> Cardinality(fp_rows),
             FN |-> Cardinality(fn_rows),
             state_change |-> Matched(state_change_quality_table)]

\* ---- class CDQ3D

ZeroTotals ==
    [overall |-> 0, spatial |-> 0, label |-> 0, fp_cost |-> 0,
     TP |-> 0, FP |-> 0, FN |-> 0, state_change |-> 0]

None == [kind |-> "None", num |-> 0, den |-> 0]

\* mutant: the false negatives are not added
add_map_eval_drops_fn(t, results) ==
    [overall |-> t.overall + results.overall,
     spatial |-> t.spatial + results.spatial,
     label |-> t.label + results.label,
     fp_cost |-> t.fp_cost + results.fp_cost,
     TP |-> t.TP + results.TP,
     FP |-> t.FP + results.FP,
     FN |-> t.FN,
     state_change |-> t.state_change + results.state_change]

\* mutant: the false positives are not added
add_map_eval_drops_fp(t, results) ==
    [overall |-> t.overall + results.overall,
     spatial |-> t.spatial + results.spatial,
     label |-> t.label + results.label,
     fp_cost |-> t.fp_cost + results.fp_cost,
     TP |-> t.TP + results.TP,
     FP |-> t.FP,
     FN |-> t.FN + results.FN,
     state_change |-> t.state_change + results.state_change]

\* the eight += of add_map_eval
add_map_eval(t, results) ==
    [overall |-> t.overall + results.overall,
     spatial |-> t.spatial + results.spatial,
     label |-> t.label + results.label,
     fp_cost |-> t.fp_cost + results.fp_cost,
     TP |-> t.TP + results.TP,
     FP |-> t.FP + results.FP,
     FN |-> t.FN + results.FN,
     state_change |-> t.state_change + results.state_change]

\* mutant: false positives weighted by their count
get_current_score_counts_fp(t) ==
    LET denominator == t.TP * Scale + t.FP * Scale + t.FN * Scale
    IN IF denominator = 0 THEN Float(0, 1) ELSE TrueDiv(t.overall, denominator)

get_current_score(t) ==
    LET denominator == t.TP * Scale + t.fp_cost + t.FN * Scale
    IN IF denominator = 0 THEN Float(0, 1) ELSE TrueDiv(t.overall, denominator)

get_avg_spatial_score(t) ==
    IF t.TP > 0 THEN TrueDiv(t.spatial, t.TP * Scale) ELSE Float(0, 1)

get_avg_label_score(t) ==
    IF t.TP > 0 THEN TrueDiv(t.label, t.TP * Scale) ELSE Float(0, 1)

get_avg_state_score(t) ==
    IF t.TP > 0 THEN TrueDiv(t.state_change, t.TP * Scale) ELSE Float(0, 1)

get_avg_overall_quality_score(t) ==
    IF t.TP > 0 THEN TrueDiv(t.overall, t.TP * Scale) ELSE Float(0, 1)

\* mutant: the guard tests the true positives
get_avg_fp_score_guards_tp(t) ==
    IF t.TP > 0 THEN TrueDiv(t.FP * Scale - t.fp_cost, t.FP * Scale) ELSE Float(1, 1)

get_avg_fp_score(t) ==
    IF t.FP > 0 THEN TrueDiv(t.FP * Scale - t.fp_cost, t.FP * Scale) ELSE Float(1, 1)

get_assignment_counts(t) == [kind |-> "tuple", val |-> <<t.TP, t.FP, t.FN>>]

\* mutant: = for += on the true-positive count
score_step_overwrites_tp(t, results) ==
    [overall |-> t.overall + results.overall,
     spatial |-> t.spatial + results.spatial,
     label |-> t.label + results.label,
     fp_cost |-> t.fp_cost + results.fp_cost,
     TP |-> results.TP,
     FP |-> t.FP + results.FP,
     FN |-> t.FN + results.FN,
     state_change |-> t.state_change + results.state_change]

\* mutant: = for += on the false-positive cost
score_step_overwrites_fp_cost(t, results) ==
    [overall |-> t.overall + results.overall,
     spatial |-> t.spatial + results.spatial,
     label |-> t.label + results.label,
     fp_cost |-> results.fp_cost,
     TP |-> t.TP + results.TP,
     FP |-> t.FP + results.FP,
     FN |-> t.FN + results.FN,
     state_change |-> t.state_change + results.state_change]

\* the body of the for loop of score(): one map's results added to the totals
score_step(t, results) ==
    [overall |-> t.overall + results.overall,
     spatial |-> t.spatial + results.spatial,
     label |-> t.label + results.label,
     fp_cost |-> t.fp_cost + results.fp_cost,
     TP |-> t.TP + results.TP,
     FP |-> t.FP + results.FP,
     FN |-> t.FN + results.FN,
     state_change |-> t.state_change + results.state_change]

\* self._get_map_evals(parameters): _calc_qual_map of one (gt, det) pair, or the
\* KeyError it raises
get_map_evals(parameters, scd, policy) ==
    IF calc_qual_map_raises(parameters.gt, parameters.det, scd)
    THEN [raised |-> TRUE, results |-> ZeroTotals]
    ELSE [raised |-> FALSE, results |-> calc_qual_map(parameters.gt, parameters.det, scd, policy)]

\* the for loop of score() from map k on, started with totals t: the totals it
\* leaves, whether _get_map_evals raised, and how many maps were evaluated.
\* evals[i] is what _get_map_evals gives for param_lists[i].
RECURSIVE score_loop(_, _, _)
score_loop(t, evals, k) ==
    IF k > Len(evals) THEN [tot |-> t, raised |-> FALSE, evaluated |-> k - 1]
    ELSE IF evals[k].raised
         THEN [tot |-> t, raised |-> TRUE, evaluated |-> k - 1]
         ELSE score_loop(score_step(t, evals[k].results), evals, k + 1)

\* mutant: reset() forgets the state quality sum
reset_totals_keeps_state == [ZeroTotals EXCEPT !.state_change = tot.state_change]

\* the totals reset() stores
reset_totals == ZeroTotals

\* score(param_lists): reset, loop, return get_current_score()
score(evals) ==
    LET run == score_loop(reset_totals, evals, 1)
    IN [tot |-> run.tot, raised |-> run.raised, evaluated |-> run.evaluated,
        ret |-> IF run.raised THEN None ELSE get_current_score(run.tot)]

\* ---- inputs

\* x tenths on the grid
T(x) == (x * Scale) \div 10

\* The records of the inputs, by name.  The state holds the names, the operations
\* are given the records.
Gts ==
    [gA0 |-> GtDict(0, 2, 2, "added"),
     gA1 |-> GtDict(1, 2, 2, "removed"),
     gB1 |-> GtDict(1, 3, 2, "constant"),
     \* records lacking one field
     gNoClass |-> Without(GtDict(0, 2, 2, "added"), "class_id"),
     gNoExtent |-> Without(GtDict(1, 2, 2, "removed"), "extent"),
     gNoState |-> Without(GtDict(1, 3, 2, "constant"), "state")]

Dets ==
    [d100 |-> DetDict(<<T(10), 0, 0>>, 2, 2, <<T(9), T(1), 0>>),
     d64 |-> DetDict(<<T(6), T(4), 0>>, 2, 2, <<0, T(10), 0>>),
     d40 |-> DetDict(<<T(4), 0, T(6)>>, 2, 2, <<T(5), 0, T(5)>>),
     d37 |-> DetDict(<<T(3), T(7), 0>>, 4, 2, <<0, 0, T(10)>>),
     d91 |-> DetDict(<<T(9), T(1), 0>>, 2, 2, <<T(5), T(5), 0>>),
     \* records lacking one field
     dNoProb |-> Without(DetDict(<<T(10), 0, 0>>, 2, 2, <<T(9), T(1), 0>>), "prob_dist"),
     dNoCentroid |-> Without(DetDict(<<T(6), T(4), 0>>, 2, 2, <<0, T(10), 0>>), "centroid"),
     dNoStateProbs |-> Without(DetDict(<<T(3), T(7), 0>>, 4, 2, <<0, 0, T(10)>>), "state_probs")]

GtPool == DOMAIN Gts
DetPool == DOMAIN Dets

\* the list of ground-truth dicts, and of detection dicts, that a list of names stands for
GtList(names) == [i \in 1..Len(names) |-> Gts[names[i]]]
DetList(names) == [j \in 1..Len(names) |-> Dets[names[j]]]

\* the sequences over S of length at most n
SeqsUpTo(S, n) == UNION { [1..k -> S] : k \in 0..n }

\* the maps given to add_map_eval and score in the accumulator's sessions, by name
Map(gt, det) == [gt |-> GtList(gt), det |-> DetList(det)]

Maps ==
    [perfect |-> Map(<<"gA0">>, <<"d100">>),          \* a perfect match
     missed |-> Map(<<"gA0">>, <<>>),                 \* a ground truth and no detection
     spurious |-> Map(<<>>, <<"d37">>),               \* a detection and no ground truth
     cross |-> Map(<<"gA0", "gA1">>, <<"d64", "d40">>),   \* the cross pairing beats the identity
     zero |-> Map(<<"gA1">>, <<"d100">>),             \* a real pair of quality zero
     malformed |-> Map(<<"gA0">>, <<"dNoProb">>)]     \* a detection without prob_dist

MapPool == DOMAIN Maps

\* get_map_evals of every map of MapPool, computed once
MapEvals ==
    [m \in MapPool |-> [scd \in BOOLEAN |-> [policy \in {"first", "last"} |->
        get_map_evals(Maps[m], scd, policy)]]]

\* ---- the history of a session

NoHistory == [ok |-> TRUE, gt |-> 0, det |-> 0]
Failed == [ok |-> FALSE, gt |-> 0, det |-> 0]

\* the history after a call that was given g ground truths and d detections
Given(h, failed, g, d) ==
    IF failed \/ ~h.ok THEN Failed
    ELSE [ok |-> TRUE, gt |-> h.gt + g, det |-> h.det + d]

\* the ground truths, and the detections, of a list of maps of MapPool
RECURSIVE GtsOf(_)
GtsOf(names) == IF names = <<>> THEN 0 ELSE Len(Maps[Head(names)].gt) + GtsOf(Tail(names))

RECURSIVE DetsOf(_)
DetsOf(names) == IF names = <<>> THEN 0 ELSE Len(Maps[Head(names)].det) + DetsOf(Tail(names))

\* ---- the accumulator's operations as actions

\* no evaluate() is running
NoEvaluation == [pc |-> "idle"]

Inputs == <<ev, gt_in, det_in, pc>>

reset ==
    /\ tot' = reset_totals
    /\ op' = "reset" /\ raised' = FALSE /\ ret' = None /\ arg' = <<>>
    /\ fresh' = TRUE
    /\ UNCHANGED <<scd_mode, tiebreak>>

\* mutant: the counts are updated before the qualities are computed
AddMapEval_counts_first(gt_instances, det_instances) ==
    /\ IF calc_qual_map_raises(gt_instances, det_instances, scd_mode)
       THEN /\ raised' = TRUE
            /\ tot' = [tot EXCEPT !.FN = @ + Len(gt_instances)]
       ELSE /\ raised' = FALSE
            /\ tot' = add_map_eval(tot, calc_qual_map(gt_instances, det_instances, scd_mode, tiebreak))
    /\ op' = "add_map_eval" /\ ret' = None /\ arg' = <<>>
    /\ fresh' = FALSE
    /\ UNCHANGED <<scd_mode, tiebreak>>

AddMapEval(gt_instances, det_instances) ==
    /\ IF calc_qual_map_raises(gt_instances, det_instances, scd_mode)
       THEN /\ raised' = TRUE
            /\ UNCHANGED tot
       ELSE /\ raised' = FALSE
            /\ tot' = add_map_eval(tot, calc_qual_map(gt_instances, det_instances, scd_mode, tiebreak))
    /\ op' = "add_map_eval" /\ ret' = None /\ arg' = <<>>
    /\ fresh' = FALSE
    /\ UNCHANGED <<scd_mode, tiebreak>>

Score(param_lists) ==
    LET run == score([i \in 1..Len(param_lists) |-> MapEvals[param_lists[i]][scd_mode][tiebreak]])
    IN /\ tot' = run.tot
       /\ raised' = run.raised
       /\ ret' = run.ret
       /\ op' = "score" /\ arg' = param_lists
       /\ fresh' = FALSE
       /\ UNCHANGED <<scd_mode, tiebreak>>

Getter(name, value) ==
    /\ op' = name /\ raised' = (value.kind = "ZeroDivisionError") /\ ret' = value /\ arg' = <<>>
    /\ UNCHANGED <<tot, scd_mode, tiebreak, fresh>>

GetCurrentScore == Getter("get_current_score", get_current_score(tot))
GetAvgSpatialScore == Getter("get_avg_spatial_score", get_avg_spatial_score(tot))
GetAvgLabelScore == Getter("get_avg_label_score", get_avg_label_score(tot))
GetAvgStateScore == Getter("get_avg_state_score", get_avg_state_score(tot))
GetAvgOverallQualityScore == Getter("get_avg_overall_quality_score", get_avg_overall_quality_score(tot))
GetAvgFpScore == Getter("get_avg_fp_score", get_avg_fp_score(tot))
GetAssignmentCounts == Getter("get_assignment_counts", get_assignment_counts(tot))

\* ---- Spec: sessions of one CDQ3D object

\* CDQ3D.__init__(scd_mode)
Init ==
    /\ tot = ZeroTotals
    /\ scd_mode \in BOOLEAN
    /\ tiebreak \in {"first", "last"}
    /\ op = "__init__" /\ raised = FALSE /\ ret = None /\ arg = <<>>
    /\ fresh = TRUE
    /\ hist = NoHistory
    /\ ev = NoEvaluation
    /\ gt_in = <<>> /\ det_in = <<>> /\ pc = "session"

Reset ==
    /\ reset
    /\ hist' = NoHistory
    /\ UNCHANGED Inputs

AddMap ==
    /\ tot.TP + tot.FP + tot.FN < MaxTotal
    /\ \E m \in MapPool :
          /\ AddMapEval(Maps[m].gt, Maps[m].det)
          /\ hist' = Given(hist, raised', Len(Maps[m].gt), Len(Maps[m].det))
    /\ UNCHANGED Inputs

ScoreMaps ==
    /\ \E param_lists \in SeqsUpTo(MapPool, MaxMaps) :
          /\ Score(param_lists)
          /\ hist' = Given(NoHistory, raised', GtsOf(param_lists), DetsOf(param_lists))
    /\ UNCHANGED Inputs

Query ==
    /\ \/ GetCurrentScore
       \/ GetAvgSpatialScore
       \/ GetAvgLabelScore
       \/ GetAvgStateScore
       \/ GetAvgOverallQualityScore
       \/ GetAvgFpScore
       \/ GetAssignmentCounts
    /\ UNCHANGED <<hist, ev, gt_in, det_in, pc>>

Next == Reset \/ AddMap \/ ScoreMaps \/ Query

Spec == Init /\ [][Next]_vars

\* ---- SpecMap: one map evaluated by a newly constructed object

\* how many records of the map lack a field
Malformed(gt_names, det_names) ==
    Cardinality({ i \in 1..Len(gt_names) : Gts[gt_names[i]].keys # GtKeys })
    + Cardinality({ j \in 1..Len(det_names) : Dets[det_names[j]].keys # DetKeys })

g_in == Len(gt_in)
d_in == Len(det_in)

InitMap ==
    /\ gt_in \in SeqsUpTo(GtPool, MaxObjs)
    /\ det_in \in SeqsUpTo(DetPool, MaxObjs)
    /\ Malformed(gt_in, det_in) <= MaxMalformed
    /\ tot = ZeroTotals
    /\ scd_mode \in BOOLEAN
    /\ tiebreak \in {"first", "last"}
    /\ op = "__init__" /\ raised = FALSE /\ ret = None /\ arg = <<>>
    /\ fresh = TRUE
    /\ hist = NoHistory
    /\ ev = NoEvaluation
    /\ pc = "start"

EvalMap ==
    /\ pc = "start"
    /\ AddMapEval(GtList(gt_in), DetList(det_in))
    /\ hist' = Given(hist, raised', g_in, d_in)
    /\ pc' = "done"
    /\ UNCHANGED <<ev, gt_in, det_in>>

NextMap == EvalMap

SpecMap == InitMap /\ [][NextMap]_vars

\* ---- SpecEval: one run of Evaluator.evaluate()
\*
\* ev holds what evaluate() reads:
\*   type      results_data['task_details']['type'], "missing" when the field is absent
\*   has_env   results_data['environment_details'] has 'name' and 'numbers'
\*   numbers   results_data['environment_details']['numbers']
\*   results   "ok", or the defect _format_results_data finds in the result records
\*   files     the environment numbers whose ground-truth file exists
\*   gt_ok     the classes of the ground-truth files are known to the class list
\*   scoring   whether the OMQ scoring of the records "returns" or "raises"
\* and what it has done: pc, the statement it is at ("raised" after an exception);
\* error, the check that raised; loaded, len(ground_truth_data_all);
\* scoring_started, the scoring was called; written, the scores file was written.

TYPE_SEMANTIC_SLAM == "semantic_slam"
TYPE_SCD == "scd"

EnvNumbers == {0, 1, 5, 6}

Raise(e, check) == [e EXCEPT !.pc = "raised", !.error = check]

\* int(num) not in range(1, 6)
out_of_range(num) == num \notin 1..5

\* mutant: the two task types' requirements are exchanged
required_environments_swapped(type) == IF type = TYPE_SCD THEN 1 ELSE 2

\* the number of ground-truth environments the task type requires
required_environments(type) == IF type = TYPE_SCD THEN 2 ELSE 1

Cdq == <<tot, scd_mode, tiebreak, op, raised, ret, arg, fresh, hist, gt_in, det_in, pc>>

InitEval ==
    /\ \E type \in {"missing", TYPE_SEMANTIC_SLAM, TYPE_SCD, "other"},
          has_env \in BOOLEAN,
          numbers \in SeqsUpTo(EnvNumbers, MaxEnvs),
          results \in {"ok", "no_objects", "no_label_probs", "wrong_size"},
          files \in SUBSET {1, 5},
          gt_ok \in BOOLEAN,
          scoring \in {"returns", "raises"} :
          ev = [pc |-> "validate_type", error |-> "none",
                type |-> type, has_env |-> has_env, numbers |-> numbers,
                results |-> results, files |-> files, gt_ok |-> gt_ok,
                scoring |-> scoring,
                loaded |-> 0, scoring_started |-> FALSE, written |-> FALSE]
    /\ tot = ZeroTotals /\ scd_mode = FALSE /\ tiebreak = "first"
    /\ op = "__init__" /\ raised = FALSE /\ ret = None /\ arg = <<>>
    /\ fresh = TRUE /\ hist = NoHistory
    /\ gt_in = <<>> /\ det_in = <<>> /\ pc = "evaluate"

\* self._validate_type(results_data)
ValidateType ==
    /\ ev.pc = "validate_type"
    /\ ev' = IF ev.type = "missing" THEN Raise(ev, "type")
             ELSE IF ev.type # TYPE_SEMANTIC_SLAM /\ ev.type # TYPE_SCD THEN Raise(ev, "type")
             ELSE [ev EXCEPT !.pc = "validate_environment"]
    /\ UNCHANGED Cdq

\* self._validate_environment(results_data)
ValidateEnvironment ==
    /\ ev.pc = "validate_environment"
    /\ ev' = IF ~ev.has_env THEN Raise(ev, "environment")
             ELSE IF \E i \in 1..Len(ev.numbers) : out_of_range(ev.numbers[i])
                  THEN Raise(ev, "environment")
             ELSE [ev EXCEPT !.pc = "format_results_data"]
    /\ UNCHANGED Cdq

\* Evaluator._format_results_data(results_data); then the for loop over the numbers
\* is entered, or skipped when there is none
FormatResultsData ==
    /\ ev.pc = "format_results_data"
    /\ ev' = IF ev.results # "ok" THEN Raise(ev, "results")
             ELSE IF Len(ev.numbers) = 0 THEN [ev EXCEPT !.pc = "evaluate"]
             ELSE [ev EXCEPT !.pc = "ground_truth"]
    /\ UNCHANGED Cdq

\* one iteration of the for loop: _ground_truth_file, json.load, _format_gt, append
GroundTruthFile ==
    /\ ev.pc = "ground_truth"
    /\ LET number == ev.numbers[ev.loaded + 1]
       IN ev' = IF number \notin ev.files THEN Raise(ev, "ground_truth")
                ELSE IF ~ev.gt_ok THEN Raise(ev, "ground_truth")
                ELSE [ev EXCEPT !.loaded = @ + 1,
                                !.pc = IF ev.loaded + 1 = Len(ev.numbers)
                                       THEN "evaluate" ELSE "ground_truth"]
    /\ UNCHANGED Cdq

\* the check of len(ground_truth_data_all) and the call of _evaluate_scd or
\* _evaluate_semantic_slam
Evaluate ==
    /\ ev.pc = "evaluate"
    /\ ev' = IF ev.loaded # required_environments(ev.type) THEN Raise(ev, "count")
             ELSE IF ev.scoring = "raises"
                  THEN [Raise(ev, "scoring") EXCEPT !.scoring_started = TRUE]
             ELSE [ev EXCEPT !.scoring_started = TRUE, !.pc = "save"]
    /\ UNCHANGED Cdq

\* json.dump(scores_data, f) into the scores file
Save ==
    /\ ev.pc = "save"
    /\ ev' = [ev EXCEPT !.written = TRUE, !.pc = "done"]
    /\ UNCHANGED Cdq

NextEval ==
    \/ ValidateType
    \/ ValidateEnvironment
    \/ FormatResultsData
    \/ GroundTruthFile
    \/ Evaluate
    \/ Save

SpecEval == InitEval /\ [][NextEval]_vars

\* ======================================================================
\* Claims about one map's evaluation (SpecMap)
\* ======================================================================

\* the map was evaluated and the evaluation returned
Evaluated == pc = "done" /\ ~raised

\* the pairwise overall qualities of the map: ground truth i, detection j at <<i, j>>
PairQuality ==
    LET gts == vectorize_map_gts(GtList(gt_in), scd_mode)
        dets == vectorize_map_dets(DetList(det_in), scd_mode)
    IN calc_overall_qual(calc_label_qual(gts.gt_labels, dets.det_label_prob_mat),
                         calc_spatial_qual(gts.gt_boxes, dets.det_boxes),
                         calc_state_change_qual(gts.gt_state_ids, dets.det_state_prob_mat))

\* the one-to-one matchings of ground truths to detections: injective functions
\* from a set of ground truths to the detections
Matchings ==
    UNION { { m \in [S -> 1..d_in] : \A a, b \in S : a # b => m[a] # m[b] } :
            S \in SUBSET (1..g_in) }

\* the total quality of matching m under the pairwise qualities Q
MatchingQuality(Q, m) == Sum([i \in DOMAIN m |-> Q[<<i, m[i]>>]], DOMAIN m)

\* C1: for a map with g > 0 ground truths and d > 0 detections the per-map counts
\* satisfy TP + FN = g and TP + FP = d.
C1_CountsCoverObjects ==
    (Evaluated /\ g_in > 0 /\ d_in > 0) =>
        /\ tot.TP + tot.FN = g_in
        /\ tot.TP + tot.FP = d_in

\* a map with fewer ground truths than detections, with a true positive and a
\* false positive
C1_Witness ==
    /\ Evaluated /\ g_in > 0 /\ g_in < d_in
    /\ tot.TP > 0 /\ tot.FP > 0

\* C2: for a non-empty map the overall quality sum is the maximum total pairwise
\* quality over all one-to-one matchings; on a 2 x 2 map whose cross pairing has
\* the strictly higher total, the cross pairing is scored.
C2_OptimalMatching ==
    (Evaluated /\ g_in > 0 /\ d_in > 0) =>
        LET Q == PairQuality
        IN /\ tot.overall = Max({ MatchingQuality(Q, m) : m \in Matchings })
           /\ (/\ g_in = 2 /\ d_in = 2
               /\ Q[<<1, 2>>] + Q[<<2, 1>>] > Q[<<1, 1>>] + Q[<<2, 2>>])
              => tot.overall = Q[<<1, 2>>] + Q[<<2, 1>>]

\* a 2 x 2 map where the first ground truth's best detection is the first one and
\* yet the cross pairing has the higher total
C2_Witness ==
    /\ Evaluated /\ g_in = 2 /\ d_in = 2
    /\ LET Q == PairQuality
       IN /\ Q[<<1, 1>>] > Q[<<1, 2>>]
          /\ Q[<<1, 2>>] + Q[<<2, 1>>] > Q[<<1, 1>>] + Q[<<2, 2>>]
          /\ tot.overall = Q[<<1, 2>>] + Q[<<2, 1>>]

\* the largest label probability of detection j over the non-background classes
MaxNonBackground(j) ==
    LET prob_dist == Dets[det_in[j]].prob_dist
    IN Max({ prob_dist[c] : c \in 1..(Len(prob_dist) - 1) })

\* C6: for a map with g = 0 or d = 0 the result is TP = 0, FP = d, FN = g, all
\* quality sums 0 and fp_cost the sum of the detections' largest non-background
\* label probability, in either mode; one ground truth alone scores 0.0, one
\* detection alone with largest probability 0.7 gives score 0.0 and FP score 0.3.
C6_EmptyMap ==
    (Evaluated /\ (g_in = 0 \/ d_in = 0)) =>
        /\ tot.TP = 0 /\ tot.FP = d_in /\ tot.FN = g_in
        /\ tot.overall = 0 /\ tot.spatial = 0 /\ tot.label = 0 /\ tot.state_change = 0
        /\ tot.fp_cost = Sum([j \in 1..d_in |-> MaxNonBackground(j)], 1..d_in)
        /\ (g_in = 1 /\ d_in = 0) => get_current_score(tot) = Float(0, 1)
        /\ (g_in = 0 /\ d_in = 1) =>
              /\ tot.fp_cost = MaxNonBackground(1)
              /\ get_current_score(tot) = Float(0, 1)
              /\ get_avg_fp_score(tot) = Float(Scale - MaxNonBackground(1), Scale)

\* scene-change mode, no ground truth, one detection of largest probability 0.7
\* whose state confidence would change the cost
C6_Witness ==
    /\ Evaluated /\ scd_mode /\ g_in = 0 /\ d_in = 1
    /\ MaxNonBackground(1) = T(7)
    /\ fp_cost_of(Dets[det_in[1]], TRUE) # T(7)
    /\ tot.fp_cost = T(7)
    /\ get_avg_fp_score(tot) = Float(Scale - T(7), Scale)

\* a map with ground truths and detections was evaluated and the evaluation returned
EvaluatedNonEmpty == Evaluated /\ g_in > 0 /\ d_in > 0

\* the side of the square cost table of the map
n_in == IF g_in > d_in THEN g_in ELSE d_in

\* the assignment the solver returns for the map's overall cost table
Assignment ==
    linear_sum_assignment(gen_cost_tables(GtList(gt_in), DetList(det_in), scd_mode).overall,
                          n_in, tiebreak)

\* the pairwise spatial, label and state qualities of the map
SpatialQuality ==
    calc_spatial_qual(vectorize_map_gts(GtList(gt_in), scd_mode).gt_boxes,
                      vectorize_map_dets(DetList(det_in), scd_mode).det_boxes)

LabelQuality ==
    calc_label_qual(vectorize_map_gts(GtList(gt_in), scd_mode).gt_labels,
                    vectorize_map_dets(DetList(det_in), scd_mode).det_label_prob_mat)

\* the state probability of detection j at the state of ground truth i, the states
\* in the order added, removed, constant
StateQuality ==
    [p \in (1..g_in) \X (1..d_in) |->
        LET state == Gts[gt_in[p[1]]].state
            state_probs == Dets[det_in[p[2]]].state_probs
        IN IF state = "added" THEN state_probs[1]
           ELSE IF state = "removed" THEN state_probs[2]
           ELSE state_probs[3]]

\* the rows of assignment col that are real ground truths matched to a real
\* detection with overall quality above zero under the pairwise qualities Q
PositivePairs(Q, col) ==
    { r \in 1..g_in : col[r] <= d_in /\ Q[<<r, col[r]>>] > 0 }

\* the detections that assignment col leaves outside a true-positive pair
FalsePositives(Q, col) ==
    { col[r] : r \in (1..n_in) \ PositivePairs(Q, col) } \cap (1..d_in)

\* the largest state probability of detection j over added and removed
MaxStateChange(j) ==
    LET state_probs == Dets[det_in[j]].state_probs
    IN IF state_probs[1] > state_probs[2] THEN state_probs[1] ELSE state_probs[2]

\* the confidence cost of detection j in the current mode
ConfidenceCost(j) ==
    IF scd_mode
    THEN gmean(<<MaxNonBackground(j), MaxStateChange(j)>>)
    ELSE MaxNonBackground(j)

\* the minimum-cost assignments of the map's overall cost table
OptimalOfMap ==
    OptimalAssignments(gen_cost_tables(GtList(gt_in), DetList(det_in), scd_mode).overall, n_in)

\* the sum of the overall quality over the pairs of assignment col
QualityOf(Q, col) ==
    LET real == { r \in 1..g_in : col[r] <= d_in }
    IN Sum([r \in real |-> Q[<<r, col[r]>>]], real)

\* C11: every pair (r, c) of the assignment is a true positive exactly when its
\* overall quality is above zero; otherwise it counts a false negative if r is a
\* real ground truth and a false positive if c is a real detection, so a real pair
\* of quality exactly zero counts one false negative and one false positive.
C11_PairClassification ==
    EvaluatedNonEmpty =>
        LET col == Assignment
            Q == PairQuality
            TPs == PositivePairs(Q, col)
        IN /\ tot.TP = Cardinality(TPs)
           /\ tot.FN = Cardinality({ r \in (1..n_in) \ TPs : r <= g_in })
           /\ tot.FP = Cardinality({ r \in (1..n_in) \ TPs : col[r] <= d_in })
           /\ (g_in = 1 /\ d_in = 1 /\ Q[<<1, 1>>] = 0)
                 => (tot.TP = 0 /\ tot.FN = 1 /\ tot.FP = 1)

\* one ground truth and one detection of overall quality zero, counted as a false
\* negative and as a false positive
C11_Witness ==
    /\ EvaluatedNonEmpty /\ g_in = 1 /\ d_in = 1
    /\ PairQuality[<<1, 1>>] = 0
    /\ tot.TP = 0 /\ tot.FN = 1 /\ tot.FP = 1

\* C12: for a non-empty map the spatial, label and state sums run over the
\* true-positive pairs only: an assigned pair of overall quality zero adds nothing
\* whatever its own spatial, label or state quality, padding adds nothing, and each
\* sum is at most TP.
C12_SumsOverTruePositives ==
    EvaluatedNonEmpty =>
        LET col == Assignment
            TPs == PositivePairs(PairQuality, col)
            Over(Q) == Sum([r \in TPs |-> Q[<<r, col[r]>>]], TPs)
        IN /\ tot.spatial = Over(SpatialQuality)
           /\ tot.label = Over(LabelQuality)
           /\ tot.state_change = IF scd_mode THEN Over(StateQuality) ELSE 0
           /\ tot.spatial <= tot.TP * Scale
           /\ tot.label <= tot.TP * Scale
           /\ tot.state_change <= tot.TP * Scale

\* a pair of overall quality zero whose spatial quality is positive, next to a
\* true positive
C12_Witness ==
    /\ EvaluatedNonEmpty /\ tot.TP > 0
    /\ LET col == Assignment
           Q == PairQuality
           S == SpatialQuality
       IN \E r \in 1..g_in :
             /\ col[r] <= d_in
             /\ Q[<<r, col[r]>>] = 0
             /\ S[<<r, col[r]>>] > 0
    /\ tot.spatial <= tot.TP * Scale

C14_StateOnlyInSceneChangeMode ==
    Evaluated =>
        /\ ~scd_mode =>
              /\ tot.state_change = 0
              /\ get_avg_state_score(tot) = Float(0, 1)
              /\ (g_in > 0 /\ d_in > 0) =>
                    LET Q == PairQuality
                        S == SpatialQuality
                        L == LabelQuality
                    IN \A p \in (1..g_in) \X (1..d_in) :
                          (Q[p] = 0) <=> (S[p] = 0 \/ L[p] = 0)
        /\ (scd_mode /\ g_in > 0 /\ d_in > 0) =>
              LET Q == PairQuality
                  state_cost == gen_cost_tables(GtList(gt_in), DetList(det_in), TRUE).state
                  col == Assignment
                  TPs == PositivePairs(Q, col)
              IN /\ \A p \in (1..g_in) \X (1..d_in) :
                       /\ state_cost[p] = Scale - StateQuality[p]
                       /\ StateQuality[p] = 0 => Q[p] = 0
                 /\ tot.TP = Cardinality(TPs)
                 /\ \A r \in TPs : StateQuality[<<r, col[r]>>] > 0
                 /\ (g_in = 1 /\ d_in = 1 /\ StateQuality[<<1, 1>>] = 0) => tot.TP = 0

\* scene-change mode: a pair of positive spatial and label quality and state
\* quality zero, counted as no true positive
C14_Witness ==
    /\ Evaluated /\ scd_mode /\ g_in = 1 /\ d_in = 1
    /\ SpatialQuality[<<1, 1>>] > 0 /\ LabelQuality[<<1, 1>>] > 0
    /\ StateQuality[<<1, 1>>] = 0
    /\ tot.TP = 0 /\ tot.overall = 0

\* C15 as stated: the counts TP, FP, FN and fp_cost of a map are the same for
\* every minimum-cost assignment of its cost table.
C15_SameForEveryOptimalAssignment ==
    EvaluatedNonEmpty =>
        LET Q == PairQuality
        IN \A col \in OptimalOfMap :
              LET TPs == PositivePairs(Q, col)
                  FPs == FalsePositives(Q, col)
              IN /\ tot.TP = Cardinality(TPs)
                 /\ tot.FN = g_in - Cardinality(TPs)
                 /\ tot.FP = Cardinality(FPs)
                 /\ tot.fp_cost = Sum([j \in FPs |-> ConfidenceCost(j)], FPs)

\* C15 amended: the overall quality sum of a map is the same for every minimum-cost
\* assignment of its cost table, and every such assignment classifies with
\* TP + FN = g and TP + FP = d, as the evaluation's counts do; the counts TP, FP,
\* FN and fp_cost are those of the one assignment the solver's policy returns.
C15_OverallSameForEveryOptimalAssignment ==
    EvaluatedNonEmpty =>
        LET Q == PairQuality
        IN /\ \A col \in OptimalOfMap :
                 LET TPs == PositivePairs(Q, col)
                     others == (1..n_in) \ TPs
                 IN /\ tot.overall = QualityOf(Q, col)
                    /\ Cardinality(TPs) + Cardinality({ r \in others : r <= g_in }) = g_in
                    /\ Cardinality(TPs) + Cardinality({ r \in others : col[r] <= d_in }) = d_in
           /\ tot.TP + tot.FN = g_in
           /\ tot.TP + tot.FP = d_in

\* two minimum-cost assignments of one table with different numbers of true
\* positives
C15_Witness ==
    /\ EvaluatedNonEmpty
    /\ LET Q == PairQuality
       IN \E col \in OptimalOfMap :
             /\ Cardinality(PositivePairs(Q, col)) # tot.TP
             /\ QualityOf(Q, col) = tot.overall

\* a record of the map lacks a field that the current mode requires
LacksRequiredField ==
    \/ \E i \in 1..g_in :
          {"class_id", "centroid", "extent"} \cup (IF scd_mode THEN {"state"} ELSE {})
              \notin SUBSET Gts[gt_in[i]].keys
    \/ \E j \in 1..d_in :
          {"prob_dist", "centroid", "extent"} \cup (IF scd_mode THEN {"state_probs"} ELSE {})
              \notin SUBSET Dets[det_in[j]].keys

\* C9: evaluating a map with a record lacking a required field always fails with
\* an error, also when g = 0 or d = 0.
C9_MalformedAlwaysRaises ==
    (pc = "done" /\ LacksRequiredField) => raised

\* ======================================================================
\* Claims about the accumulator (Spec)
\* ======================================================================

\* what _get_map_evals gives for each map of a list of map names
EvalsOf(names) == [i \in 1..Len(names) |-> MapEvals[names[i]][scd_mode][tiebreak]]

\* the totals after add_map_eval of names[k], names[k + 1], ... on totals t, up to
\* the first call that raises
RECURSIVE AddEach(_, _, _)
AddEach(t, names, k) ==
    IF k > Len(names) THEN t
    ELSE LET e == MapEvals[names[k]][scd_mode][tiebreak]
         IN IF e.raised THEN t ELSE AddEach(add_map_eval(t, e.results), names, k + 1)

\* C3: score(mapList) leaves the totals of reset() followed by add_map_eval of each
\* pair in order and returns get_current_score() of them, whatever was added before.
C3_ScoreIsResetThenAdd ==
    op = "score" =>
        /\ tot = AddEach(ZeroTotals, arg, 1)
        /\ ~raised => ret = get_current_score(AddEach(ZeroTotals, arg, 1))

\* a score() of two maps with a true positive each
C3_Witness ==
    /\ op = "score" /\ ~raised /\ Len(arg) = 2
    /\ tot.TP >= 2 /\ ret.num > 0

\* C4: get_current_score() is overall_sum / (TP + fp_cost_sum + FN), the false
\* positives weighted by their cost, and 0.0 when the denominator is 0; with no
\* map added it is 0.0.
C4_CurrentScore ==
    op = "get_current_score" =>
        LET den == tot.TP * Scale + tot.fp_cost + tot.FN * Scale
        IN /\ ~raised
           /\ IF den = 0 THEN ret = Float(0, 1)
              ELSE ret.kind = "float" /\ ret.den > 0 /\ ret.num * den = tot.overall * ret.den
           /\ fresh => ret = Float(0, 1)

\* a positive score over totals holding a false positive of cost below 1
C4_Witness ==
    /\ op = "get_current_score"
    /\ tot.overall > 0 /\ tot.FP > 0 /\ tot.fp_cost < tot.FP * Scale
    /\ ret.num > 0

GetterNames ==
    {"get_current_score", "get_avg_spatial_score", "get_avg_label_score",
     "get_avg_state_score", "get_avg_overall_quality_score", "get_avg_fp_score",
     "get_assignment_counts"}

\* ret is sum / TP, and 0.0 when TP is 0
IsAverageOverTP(sum) ==
    IF tot.TP > 0
    THEN ret.kind = "float" /\ ret.den > 0 /\ ret.num * (tot.TP * Scale) = sum * ret.den
    ELSE ret = Float(0, 1)

\* C5: no getter divides by zero: the four averages are running_sum / TP, 0.0 when
\* TP is 0, and get_avg_fp_score is (FP - fp_cost_sum) / FP, 1.0 when FP is 0.
C5_NoDivisionByZero ==
    /\ op \in GetterNames => (~raised /\ ret.kind # "ZeroDivisionError")
    /\ op = "get_avg_spatial_score" => IsAverageOverTP(tot.spatial)
    /\ op = "get_avg_label_score" => IsAverageOverTP(tot.label)
    /\ op = "get_avg_state_score" => IsAverageOverTP(tot.state_change)
    /\ op = "get_avg_overall_quality_score" => IsAverageOverTP(tot.overall)
    /\ op = "get_avg_fp_score" =>
          IF tot.FP > 0
          THEN /\ ret.kind = "float" /\ ret.den > 0
               /\ ret.num * (tot.FP * Scale) = (tot.FP * Scale - tot.fp_cost) * ret.den
          ELSE ret = Float(1, 1)

\* get_avg_fp_score() with true positives and no false positive
C5_Witness ==
    /\ op = "get_avg_fp_score" /\ tot.TP > 0 /\ tot.FP = 0
    /\ ret = Float(1, 1)

\* C7: reset() zeroes the eight totals and changes nothing else; every getter
\* called before the next map is added returns a new object's value.
C7_ResetZeroesTotals ==
    [][/\ op' = "reset" =>
            /\ tot' = ZeroTotals
            /\ scd_mode' = scd_mode
       /\ fresh' =>
            /\ op' = "get_assignment_counts" => ret'.val = <<0, 0, 0>>
            /\ op' = "get_current_score" => ret' = Float(0, 1)
            /\ op' \in {"get_avg_spatial_score", "get_avg_label_score",
                        "get_avg_state_score", "get_avg_overall_quality_score"}
                  => ret' = Float(0, 1)
            /\ op' = "get_avg_fp_score" => ret' = Float(1, 1)]_vars

\* a scene-change evaluator right after reset()
C7_Witness ==
    /\ op = "reset" /\ scd_mode /\ fresh
    /\ tot = ZeroTotals

C10_NoPartialTotals ==
    (op = "score" /\ raised) =>
        /\ ret = None
        /\ tot = ZeroTotals

\* C16: while every call since the last reset() has returned, get_assignment_counts()
\* returns (TP, FP, FN) with TP + FN the number of ground truths and TP + FP the
\* number of detections of the maps added since then, empty maps included; no
\* count decreases except by reset() (and the reset of score()).
C16_CountsCoverAllMaps ==
    [][/\ hist'.ok =>
            /\ tot'.TP + tot'.FN = hist'.gt
            /\ tot'.TP + tot'.FP = hist'.det
            /\ op' = "get_assignment_counts" => ret'.val = <<tot'.TP, tot'.FP, tot'.FN>>
       /\ op' \notin {"reset", "score"} =>
            /\ tot'.TP >= tot.TP
            /\ tot'.FP >= tot.FP
            /\ tot'.FN >= tot.FN]_vars

\* the counts of a session that added two ground truths and two detections, among
\* them a ground truth and a detection left unmatched
C16_Witness ==
    /\ op = "get_assignment_counts" /\ hist.ok
    /\ hist.gt = 2 /\ hist.det = 2
    /\ ret.val = <<1, 1, 1>>

\* v is a float in [0, 1]
InUnitInterval(v) == v.kind = "float" /\ 0 <= v.num /\ v.num <= v.den

\* C17: in every state of the accumulator 0 <= overall <= TP and
\* 0 <= fp_cost <= FP, so get_current_score(), get_avg_fp_score() and the four
\* averages over the true positives lie in [0, 1].
C17_TotalsAndScoresInRange ==
    /\ 0 <= tot.overall /\ tot.overall <= tot.TP * Scale
    /\ 0 <= tot.fp_cost /\ tot.fp_cost <= tot.FP * Scale
    /\ InUnitInterval(get_current_score(tot))
    /\ InUnitInterval(get_avg_fp_score(tot))
    /\ InUnitInterval(get_avg_spatial_score(tot))
    /\ InUnitInterval(get_avg_label_score(tot))
    /\ InUnitInterval(get_avg_state_score(tot))
    /\ InUnitInterval(get_avg_overall_quality_score(tot))

\* totals with true and false positives whose scores lie strictly inside (0, 1)
C17_Witness ==
    /\ tot.TP > 0 /\ tot.FP > 0
    /\ 0 < tot.fp_cost /\ tot.fp_cost < tot.FP * Scale
    /\ 0 < tot.overall /\ tot.overall < tot.TP * Scale
    /\ get_current_score(tot).num > 0
    /\ get_current_score(tot).num < get_current_score(tot).den
    /\ get_avg_fp_score(tot).num < get_avg_fp_score(tot).den

\* the results of map m in the current mode
ResultsOf(m) == MapEvals[m][scd_mode][tiebreak]

\* C18: add_map_eval is all or nothing: when the map's evaluation raises, every
\* total keeps its value; when it returns, the eight totals grow by the eight
\* fields of the map's result.
C18_AddMapEvalAllOrNothing ==
    [][op' = "add_map_eval" =>
          IF raised'
          THEN tot' = tot
          ELSE \E m \in MapPool :
                  /\ ~ResultsOf(m).raised
                  /\ tot'.overall = tot.overall + ResultsOf(m).results.overall
                  /\ tot'.spatial = tot.spatial + ResultsOf(m).results.spatial
                  /\ tot'.label = tot.label + ResultsOf(m).results.label
                  /\ tot'.fp_cost = tot.fp_cost + ResultsOf(m).results.fp_cost
                  /\ tot'.TP = tot.TP + ResultsOf(m).results.TP
                  /\ tot'.FP = tot.FP + ResultsOf(m).results.FP
                  /\ tot'.FN = tot.FN + ResultsOf(m).results.FN
                  /\ tot'.state_change = tot.state_change + ResultsOf(m).results.state_change]_vars

\* an add_map_eval() that raised on totals holding earlier maps
C18_Witness ==
    /\ op = "add_map_eval" /\ raised
    /\ tot.TP > 0 /\ tot.overall > 0

\* ======================================================================
\* Claims about Evaluator.evaluate() (SpecEval)
\* ======================================================================

\* the first check, in the order type, environment, results, ground_truth, count,
\* that the inputs of the run fail; "none" when they pass all
FirstFailure ==
    IF ev.type \notin {"semantic_slam", "scd"} THEN "type"
    ELSE IF ~ev.has_env \/ (\E i \in 1..Len(ev.numbers) : ev.numbers[i] < 1 \/ ev.numbers[i] > 5)
         THEN "environment"
    ELSE IF ev.results # "ok" THEN "results"
    ELSE IF Len(ev.numbers) > 0
            /\ (~ev.gt_ok \/ \E i \in 1..Len(ev.numbers) : ev.numbers[i] \notin ev.files)
         THEN "ground_truth"
    ELSE IF ev.type = "scd" /\ Len(ev.numbers) # 2 THEN "count"
    ELSE IF ev.type = "semantic_slam" /\ Len(ev.numbers) # 1 THEN "count"
    ELSE "none"

\* C19: evaluate() checks in order the task type, the environment details (every
\* number in 1..5), the result records and the ground-truth files, then requires 2
\* ground-truth environments for 'scd' and 1 for 'semantic_slam'; a failed check
\* raises before any scoring, and the scores file is written only as the last step
\* of a run whose checks and scoring all succeeded.
C19_ChecksBeforeScoringThenWrite ==
    /\ (ev.pc = "raised" /\ ev.error # "scoring") =>
          (ev.error = FirstFailure /\ ~ev.scoring_started)
    /\ FirstFailure # "none" =>
          (~ev.scoring_started /\ ~ev.written /\ ev.pc \notin {"save", "done"})
    /\ ev.scoring_started =>
          ev.loaded = (IF ev.type = "scd" THEN 2 ELSE 1)
    /\ ev.written =>
          (ev.pc = "done" /\ FirstFailure = "none" /\ ev.scoring = "returns")
    /\ ev.pc = "done" => ev.written
    /\ ev.pc = "raised" => ~ev.written

\* a scene-change run with valid records and one ground-truth environment,
\* refused for the number of environments before any scoring
C19_Witness ==
    /\ ev.pc = "raised" /\ ev.error = "count"
    /\ ev.type = "scd" /\ ev.loaded = 1
    /\ ~ev.scoring_started /\ ~ev.written

====
